---- MODULE Spec2Model ----
(***************************************************************************)
(* josh-sync: the pull and push orchestrators (src/src/sync.rs), the proxy *)
(* lifecycle (src/src/josh.rs), the preflight (src/src/utils.rs) and the   *)
(* loading of the synchronization marker (src/src/bin/rustc_josh_sync.rs). *)
(*                                                                         *)
(* One process runs one command (pull or push) from `Invoke` to `Exit`;    *)
(* the repository, the remotes and the proxy processes persist between     *)
(* commands.  Every external command (git, kill, the proxy) is an input:   *)
(* its outcome is chosen among the outcomes the command can produce.       *)
(*                                                                         *)
(* Text is a sequence of characters; Option<T> is a sequence of length 0   *)
(* (None) or 1 (Some).  A commit SHA of the standalone repository is the   *)
(* history it names: the sequence of commits from the first one to it.     *)
(***************************************************************************)
EXTENDS Integers, Sequences, FiniteSets, TLC

VARIABLES
    head,           \* HEAD of the standalone repository: Seq(commit)
    index_marker,   \* the marker file in the git index: Option(text)
    wt_marker,      \* the marker file in the working tree: Option(text)
    wt_tree,        \* content of the tracked files of the working tree
    merging,        \* a conflicted merge is in progress
    fork_branch,    \* the target branch on the contributor's fork: Option
    child,          \* the proxy child of this process: none, running, exited
    orphans,        \* proxy processes left running by earlier processes
    post_pull,      \* config.post_pull: number of configured operations
    pc,             \* position of the process in rustc_pull / rustc_push
    cmd,            \* pull or push
    args,           \* arguments of the call
    ctx,            \* SyncContext.last_upstream_sha: Option(text)
    frame,          \* the locals of rustc_pull / rustc_push
    josh,           \* a RunningJoshProxy handle is held
    git_reset,      \* the GitResetOnDrop guard: Option(record)
    result,         \* what the call returned
    error,          \* the error value the call returned
    calls,          \* number of commands run so far
    obs,            \* observations of the current call
    prev,           \* the target of the previous command, when that was a
                    \* pull that returned Ok: Option(text)
    config          \* the configuration file, what load_config made of it,
                    \* and what construct_josh_filter made of that

repo == <<head, index_marker, wt_marker, wt_tree, merging>>
remote == <<fork_branch>>
procs == <<child, orphans>>
conf == <<post_pull, config>>
call == <<cmd, args, ctx>>
guards == <<josh, git_reset>>
outcome == <<result, error>>
hist == <<calls, obs, prev>>
vars == <<repo, remote, procs, conf, pc, call, frame, guards, outcome, hist>>

(***************************************************************************)
(* Bounds of the model.                                                    *)
(***************************************************************************)
MaxCalls == 2
MaxPostPull == 2

(***************************************************************************)
(* Option<T>.                                                              *)
(***************************************************************************)
None == <<>>
Some(x) == <<x>>
IsSome(o) == o # <<>>
Unwrap(o) == o[1]

(***************************************************************************)
(* Text.                                                                   *)
(***************************************************************************)
Last(s) == s[Len(s)]

\* u8::is_ascii_whitespace / char::is_whitespace on the characters used here
IsWhitespace(c) == c \in {" ", "\n", "\t", "\r"}

RECURSIVE TrimStart(_)
TrimStart(s) ==
    IF s = <<>> THEN <<>>
    ELSE IF IsWhitespace(Head(s)) THEN TrimStart(Tail(s)) ELSE s

RECURSIVE TrimEnd(_)
TrimEnd(s) ==
    IF s = <<>> THEN <<>>
    ELSE IF IsWhitespace(Last(s)) THEN TrimEnd(SubSeq(s, 1, Len(s) - 1)) ELSE s

\* str::trim
Trim(s) == TrimEnd(TrimStart(s))

RECURSIVE TakeWord(_)
TakeWord(s) ==
    IF s = <<>> \/ IsWhitespace(Head(s)) THEN <<>>
    ELSE <<Head(s)>> \o TakeWord(Tail(s))

\* A first word that is the empty text when there is no word
FirstWord_OrEmpty(out) == Some(TakeWord(TrimStart(out)))

\* out.split_whitespace().next(): Option(text)
FirstWord(out) ==
    IF TrimStart(out) = <<>> THEN None ELSE Some(TakeWord(TrimStart(out)))

\* The names of upstream commits the model draws from: an abbreviated one of
\* 6 characters, as a user types it, and one of 12 characters.
ShaA == <<"a", "a", "a", "1", "1", "1">>
ShaB == <<"b", "b", "b", "2", "2", "2", "b", "b", "b", "2", "2", "2">>
Shas == {ShaA, ShaB}

\* The commits `git ls-remote` finds at the HEAD of upstream
UpstreamHeads == {ShaB}

\* stdout of `git ls-remote <url> HEAD`, trimmed by run_command
LsRemoteOutput(sha) == sha \o <<"\t", "H", "E", "A", "D">>

\* A write that leaves the file empty
MarkerText_Empty(sha) == <<>>

\* format!("{upstream_sha}\n")
MarkerText(sha) == sha \o <<"\n">>

(***************************************************************************)
(* The standalone repository as git keeps it.                              *)
(***************************************************************************)
\* A commit: which step made it, the marker file it records (None when the
\* file is not tracked), the content of the other tracked files, and the
\* number of root commits it brings into the history.
Commit(kind, ver, tree, roots) ==
    [kind |-> kind, ver |-> ver, tree |-> tree, roots |-> roots]

\* stdout of `git status --untracked-files=no --porcelain`: a line for the
\* unmerged paths, for the changed tracked files, for a marker file staged
\* and for one changed after it was staged
GitStatus ==
    (IF merging THEN <<"UU">> ELSE <<>>)
    \o (IF wt_tree # Last(head).tree THEN <<" M">> ELSE <<>>)
    \o (IF index_marker # Last(head).ver THEN <<"M ">> ELSE <<>>)
    \o (IF IsSome(index_marker) /\ wt_marker # index_marker THEN <<" M">> ELSE <<>>)

\* A preflight that takes every state for clean
Dirty_Never == FALSE

\* `!read.is_empty()`
Dirty == GitStatus # <<>>

RECURSIVE CountRoots(_)
\* `git rev-list HEAD --max-parents=0 --count`
CountRoots(h) ==
    IF h = <<>> THEN 0 ELSE Last(h).roots + CountRoots(SubSeq(h, 1, Len(h) - 1))

\* The marker file in the working tree after `git reset --hard <to>`: a file
\* the target records is restored, a file only the index knows is removed,
\* an untracked file is left alone.
ResetMarker(to) ==
    IF IsSome(Last(to).ver) THEN Last(to).ver
    ELSE IF IsSome(index_marker) THEN None
    ELSE wt_marker

\* A diff that is always found empty
HasEmptyDiff_Always(baseline, diff_runs) == TRUE

\* `git diff --exit-code <baseline>` exits 0: the tracked files of the working
\* tree are those of the baseline commit. A failure of the command itself is
\* an Err too, and is_ok() is then false.
HasEmptyDiff(baseline, diff_runs) ==
    /\ diff_runs
    /\ wt_tree = Last(baseline).tree
    /\ index_marker = Last(baseline).ver
    /\ (IsSome(index_marker) => wt_marker = index_marker)

(***************************************************************************)
(* Values of the call.                                                     *)
(***************************************************************************)
NoArgs == [upstream_commit |-> None, allow_noop |-> FALSE]

Frame0 ==
    [upstream_sha |-> None, orig_head |-> None, num_roots_before |-> 0,
     sha_pre_merge |-> None, current_sha |-> None,
     op |-> 0, op_head |-> None, base_upstream_sha |-> None,
     fetch_head |-> None]

Err(kind) == [kind |-> kind, expected |-> None, got |-> None]
NoError == Err("none")

\* What a failed call returns: RustcPullError::PullFailed from rustc_pull,
\* anyhow::Error from rustc_push.
Failed == IF cmd = "pull" THEN "PullFailed" ELSE "Err"

Obs0 ==
    [head0 |-> None, marker0 |-> None, fork0 |-> None, ret_at |-> "none",
     reached |-> {}, spawned |-> FALSE, poll |-> None,
     writes |-> 0, commits |-> <<>>, resets |-> <<>>, pushes |-> <<>>,
     merged |-> "none", diff |-> "none", ops |-> <<>>, probe |-> "none", shutdown |-> <<>>,
     grace |-> "none", status0 |-> <<>>, gh_pr |-> "none",
     exit_code |-> None]

\* load_context without the trim() of the file's content
LoadRustVersion_Untrimmed(file) == file

\* load_context: the marker file, trimmed; None when it cannot be read
LoadRustVersion(file) ==
    IF file = None THEN None ELSE Some(Trim(Unwrap(file)))

\* The marker file a repository starts with: empty as `init` writes it, or
\* recording an earlier synchronization point.
Markers == {Some(<<>>), Some(MarkerText(ShaA)), Some(MarkerText(ShaB))}

\* No configuration file is looked at: the orchestrators are given a loaded
\* configuration.
NoJoshConfig ==
    [org |-> None, repo |-> None, path |-> None, filter |-> None, post_pull |-> 0]

Config0 ==
    [file |-> [readable |-> FALSE, toml |-> NoJoshConfig],
     loaded |-> [status |-> "none", error |-> "none", config |-> NoJoshConfig],
     josh_filter |-> [called |-> FALSE, unreachable |-> FALSE, value |-> <<>>]]

\* The first commit records the marker file, or the file is not tracked: it
\* is then absent, or in the working tree only (as `init` leaves it).
Init ==
    /\ config = Config0
    /\ \E ver \in {None} \cup Markers :
         /\ head = <<Commit("base", ver, 0, 1)>>
         /\ index_marker = ver
         /\ wt_marker \in (IF ver = None
                            THEN {None, Some(<<>>), Some(MarkerText(ShaA))}
                            ELSE {ver})
    /\ wt_tree \in {0, 1}
    /\ merging = FALSE
    /\ fork_branch = None
    /\ child = "none"
    /\ orphans = 0
    /\ post_pull = 0
    /\ pc = "idle"
    /\ cmd = "none"
    /\ args = NoArgs
    /\ ctx = None
    /\ frame = Frame0
    /\ josh = FALSE
    /\ git_reset = None
    /\ result = "none"
    /\ error = NoError
    /\ calls = 0
    /\ obs = Obs0
    /\ prev = None

(***************************************************************************)
(* main: load the context and call the orchestrator.                       *)
(***************************************************************************)
Invoke ==
    /\ pc = "idle"
    /\ calls < MaxCalls
    /\ \E c \in {"pull", "push"} :
         /\ cmd' = c
         /\ args' \in (IF c = "pull"
                        THEN [upstream_commit : {None, Some(ShaA)}, allow_noop : BOOLEAN]
                        ELSE {NoArgs})
         /\ post_pull' \in (IF c = "pull" THEN {0, MaxPostPull} ELSE {0})
         /\ pc' = IF c = "pull" THEN "resolve" ELSE "preflight"
    /\ ctx' = LoadRustVersion(wt_marker)
    /\ calls' = calls + 1
    /\ obs' = [Obs0 EXCEPT !.head0 = Some(head), !.marker0 = wt_marker,
                           !.fork0 = fork_branch, !.status0 = GitStatus]
    /\ frame' = Frame0
    /\ result' = "none"
    /\ error' = NoError
    /\ UNCHANGED <<repo, remote, procs, guards, prev, config>>

\* Leaving the call by `return` or `?`: the locals are dropped next, in
\* reverse order of declaration (git_reset, then josh).
ReturnWith(o, res, err, at) ==
    /\ result' = res
    /\ error' = err
    /\ obs' = [o EXCEPT !.ret_at = at]
    /\ pc' = "drop_git_reset"

Return(res, err, at) == ReturnWith(obs, res, err, at)

\* A panic unwinds through the same drops.
Panic(at) == Return("Panic", Err(at), at)

Reach(at) == [obs EXCEPT !.reached = @ \cup {at}]

\* The observation of the polling loop lasts for the state after `start`.
Started == [obs EXCEPT !.poll = None]

(***************************************************************************)
(* rustc_pull, first part: target, preflight, proxy, short-circuit.        *)
(***************************************************************************)
ResolveTarget ==
    /\ pc = "resolve"
    /\ IF IsSome(args.upstream_commit)
       THEN /\ frame' = [frame EXCEPT !.upstream_sha = args.upstream_commit]
            /\ pc' = "preflight"
            /\ UNCHANGED <<outcome, obs>>
       ELSE \E ls_remote \in {None, Some(<<>>)} \cup {Some(LsRemoteOutput(s)) : s \in UpstreamHeads} :
              IF ls_remote = None
              THEN /\ ReturnWith(Reach("ls_remote"), "PullFailed",
                                 Err("cannot fetch upstream commit"), "ls_remote")
                   /\ UNCHANGED frame
              ELSE IF FirstWord(Unwrap(ls_remote)) = None
              THEN /\ ReturnWith(Reach("ls_remote"), "Panic",
                                 Err("could not obtain HEAD from remote"),
                                 "could not obtain HEAD from remote")
                   /\ UNCHANGED frame
              ELSE /\ frame' = [frame EXCEPT !.upstream_sha = FirstWord(Unwrap(ls_remote))]
                   /\ pc' = "preflight"
                   /\ obs' = Reach("ls_remote")
                   /\ UNCHANGED outcome
    /\ UNCHANGED <<repo, remote, procs, conf, call, guards, calls, prev>>

EnsureCleanGitState ==
    /\ pc = "preflight"
    /\ \E status_runs \in BOOLEAN :
         IF ~status_runs
         THEN ReturnWith(Reach("preflight"), "Panic",
                         Err("cannot figure out if git state is clean"),
                         "cannot figure out if git state is clean")
         ELSE IF Dirty
         THEN ReturnWith(Reach("preflight"), Failed,
                         Err("working directory must be clean"), "preflight")
         ELSE /\ pc' = IF cmd = "pull" THEN "start" ELSE "base_sha"
              /\ obs' = Reach("preflight")
              /\ UNCHANGED outcome
    /\ UNCHANGED <<repo, remote, procs, conf, call, frame, guards, calls, prev>>

(***************************************************************************)
(* JoshProxy::start.                                                       *)
(***************************************************************************)
PollAttempts == 100

\* The polling loop: `made` attempts were made so far; the connection
\* succeeds from attempt `ready_from` on. Returns whether an attempt
\* connected and how many attempts were made.
\* A loop that makes one attempt more than the bound
PollLoop_OneMore(made, ready_from) ==
    [connected |-> ready_from <= PollAttempts + 1,
     attempts |-> IF ready_from <= PollAttempts + 1 THEN ready_from ELSE PollAttempts + 1,
     ready_from |-> ready_from]

RECURSIVE PollLoop(_, _)
PollLoop(made, ready_from) ==
    IF made >= PollAttempts
    THEN [connected |-> FALSE, attempts |-> made, ready_from |-> ready_from]
    ELSE IF made + 1 >= ready_from
    THEN [connected |-> TRUE, attempts |-> made + 1, ready_from |-> ready_from]
    ELSE PollLoop(made + 1, ready_from)

\* The first attempt at which the port is open: at once, at the second
\* attempt, at the last one, or not within the loop.
ReadyChoices == {1, 2, PollAttempts, PollAttempts + 1}

JoshStart ==
    /\ pc = "start"
    /\ \E spawned \in BOOLEAN :
         IF ~spawned
         THEN /\ Return(Failed, Err("cannot start josh-proxy"), "start")
              /\ UNCHANGED <<child, josh>>
         ELSE \E c \in {"running", "exited"}, ready_from \in ReadyChoices :
                /\ ready_from <= PollAttempts => (c = "running" \/ orphans > 0)
                /\ child' = c
                /\ LET polled == PollLoop(0, ready_from)
                       o == [obs EXCEPT !.spawned = TRUE,
                                        !.poll = Some(polled)]
                   IN  IF polled.connected
                       THEN /\ josh' = TRUE
                            /\ obs' = o
                            /\ pc' = IF cmd = "pull" THEN "orig_head" ELSE "checkout"
                            /\ UNCHANGED outcome
                       ELSE /\ ReturnWith(o, "Panic", Err("josh-proxy is still not available"), "start_poll")
                            /\ UNCHANGED josh
    /\ UNCHANGED <<repo, remote, orphans, conf, call, frame, git_reset, calls, prev>>

(***************************************************************************)
(* GitResetOnDrop.                                                         *)
(***************************************************************************)
GitResetOnDropNew(current_sha) == [disarmed |-> FALSE, reset_to |-> current_sha]

\* A disarm() that leaves the guard armed
Disarm_StillArmed(guard) == guard

Disarm(guard) == [guard EXCEPT !.disarmed = TRUE]

\* A guard that fires only when the call ends in an error
Armed_OnErrorOnly ==
    IsSome(git_reset) /\ ~Unwrap(git_reset).disarmed /\ result = "PullFailed"

Armed == IsSome(git_reset) /\ ~Unwrap(git_reset).disarmed

(***************************************************************************)
(* rustc_pull, continued.                                                  *)
(***************************************************************************)
GetOrigHead ==
    /\ pc = "orig_head"
    /\ \E rev_parse \in BOOLEAN :
         IF ~rev_parse
         THEN /\ ReturnWith(Started, "PullFailed", Err("failed to get current commit"), "orig_head")
              /\ UNCHANGED frame
         ELSE /\ frame' = [frame EXCEPT !.orig_head = Some(head)]
              /\ pc' = "short_circuit"
              /\ obs' = Started
              /\ UNCHANGED outcome
    /\ UNCHANGED <<repo, remote, procs, conf, call, guards, calls, prev>>

\* A comparison that never finds the target already synchronized
SameAsLastSync_Never(last_upstream_sha, upstream_sha) == FALSE

\* `if let Some(previous_base_commit) = last_upstream_sha { if it == upstream_sha`
SameAsLastSync(last_upstream_sha, upstream_sha) ==
    IsSome(last_upstream_sha) /\ Unwrap(last_upstream_sha) = upstream_sha

ShortCircuit ==
    /\ pc = "short_circuit"
    /\ IF SameAsLastSync(ctx, Unwrap(frame.upstream_sha))
       THEN /\ ReturnWith(Reach("short_circuit"), "NothingToPull", NoError, "short_circuit")
            /\ UNCHANGED git_reset
       ELSE /\ git_reset' = Some(GitResetOnDropNew(Unwrap(frame.orig_head)))
            /\ obs' = Reach("short_circuit")
            /\ pc' = "write_marker"
            /\ UNCHANGED outcome
    /\ UNCHANGED <<repo, remote, procs, conf, call, frame, josh, calls, prev>>

WriteMarker ==
    /\ pc = "write_marker"
    /\ \E written \in BOOLEAN :
         IF ~written
         THEN /\ Return("PullFailed", Err("cannot write upstream SHA"), "write_marker")
              /\ UNCHANGED wt_marker
         ELSE /\ wt_marker' = Some(MarkerText(Unwrap(frame.upstream_sha)))
              /\ obs' = [obs EXCEPT !.writes = @ + 1]
              /\ pc' = "git_add"
              /\ UNCHANGED outcome
    /\ UNCHANGED <<head, index_marker, wt_tree, merging, remote, procs, conf,
                   call, frame, guards, calls, prev>>

GitAddMarker ==
    /\ pc = "git_add"
    /\ \E added \in BOOLEAN :
         IF ~added
         THEN /\ Return("PullFailed", Err("git add failed"), "git_add")
              /\ UNCHANGED index_marker
         ELSE /\ index_marker' = wt_marker
              /\ pc' = "git_commit"
              /\ UNCHANGED <<outcome, obs>>
    /\ UNCHANGED <<head, wt_marker, wt_tree, merging, remote, procs, conf,
                   call, frame, guards, calls, prev>>

GitCommitMarker ==
    /\ pc = "git_commit"
    /\ \E committed \in BOOLEAN :
         IF ~committed
         THEN /\ Return("PullFailed", Err("cannot create preparation commit"), "git_commit")
              /\ UNCHANGED head
         ELSE /\ head' = Append(head, Commit("marker", index_marker, Last(head).tree, 0))
              /\ obs' = [obs EXCEPT !.commits = Append(@, "marker")]
              /\ pc' = "fetch"
              /\ UNCHANGED outcome
    /\ UNCHANGED <<index_marker, wt_marker, wt_tree, merging, remote, procs, conf,
                   call, frame, guards, calls, prev>>

\* What the filtered history fetched through the proxy (FETCH_HEAD) is to the
\* local one when it is merged: it merges with changes, merges without
\* changes, is already merged, conflicts, or shares no history; and whether
\* it brings a new root commit.
Incoming ==
    [kind : {"changes", "empty"}, newroot : BOOLEAN]
    \cup [kind : {"ancestor", "conflict", "unrelated"}, newroot : {FALSE}]

FetchUpstream ==
    /\ pc = "fetch"
    /\ \E fetched \in BOOLEAN :
         IF ~fetched
         THEN ReturnWith(Reach("fetch"), "PullFailed",
                         Err("cannot fetch git state through Josh"), "fetch")
         ELSE /\ pc' = "num_roots_before"
              /\ obs' = Reach("fetch")
              /\ UNCHANGED outcome
    /\ UNCHANGED <<repo, remote, procs, conf, call, frame, guards, calls, prev>>

NumRootsBefore ==
    /\ pc = "num_roots_before"
    /\ \E counted \in BOOLEAN :
         IF ~counted
         THEN /\ Return("PullFailed", Err("failed to determine the number of root commits"), "num_roots_before")
              /\ UNCHANGED frame
         ELSE /\ frame' = [frame EXCEPT !.num_roots_before = CountRoots(head)]
              /\ pc' = "sha_pre_merge"
              /\ UNCHANGED <<outcome, obs>>
    /\ UNCHANGED <<repo, remote, procs, conf, call, guards, calls, prev>>

ShaPreMerge ==
    /\ pc = "sha_pre_merge"
    /\ \E rev_parse \in BOOLEAN :
         IF ~rev_parse
         THEN /\ Return("PullFailed", Err("failed to get current commit"), "sha_pre_merge")
              /\ UNCHANGED frame
         ELSE /\ frame' = [frame EXCEPT !.sha_pre_merge = Some(head)]
              /\ pc' = "incoming_ref"
              /\ UNCHANGED <<outcome, obs>>
    /\ UNCHANGED <<repo, remote, procs, conf, call, guards, calls, prev>>

IncomingRef ==
    /\ pc = "incoming_ref"
    /\ \E rev_parse \in BOOLEAN :
         IF ~rev_parse
         THEN Return("PullFailed", Err("git rev-parse FETCH_HEAD failed"), "incoming_ref")
         ELSE /\ pc' = "merge_message"
              /\ UNCHANGED <<outcome, obs>>
    /\ UNCHANGED <<repo, remote, procs, conf, call, frame, guards, calls, prev>>

\* upstream_head_short = &upstream_sha[..12]
ShortShaLen == 12

MergeMessage ==
    /\ pc = "merge_message"
    /\ IF Len(Unwrap(frame.upstream_sha)) < ShortShaLen
       THEN Panic("byte index 12 is out of bounds")
       ELSE /\ pc' = "merge"
            /\ UNCHANGED <<outcome, obs>>
    /\ UNCHANGED <<repo, remote, procs, conf, call, frame, guards, calls, prev>>

\* `git merge FETCH_HEAD --no-verify --no-ff -m <message>` on the fetched history
MergeFetched ==
    /\ pc = "merge"
    /\ \E incoming \in Incoming :
       LET roots == IF incoming.newroot THEN 1 ELSE 0
       IN  IF incoming.kind \in {"conflict", "unrelated"}
           THEN /\ merging' = (incoming.kind = "conflict")
                /\ git_reset' = Some(Disarm(Unwrap(git_reset)))
                /\ ReturnWith([obs EXCEPT !.merged = "failed"], "PullFailed",
                              Err("FAILED to merge new commits"), "merge")
                /\ UNCHANGED <<head, wt_tree>>
           ELSE /\ IF incoming.kind = "ancestor"
                   THEN UNCHANGED <<head, wt_tree>>
                   ELSE LET tree == IF incoming.kind = "changes"
                                    THEN Last(head).tree + 1 ELSE Last(head).tree
                        IN  /\ head' = Append(head, Commit("merge", Last(head).ver, tree, roots))
                            /\ wt_tree' = tree
                /\ obs' = [obs EXCEPT !.merged = incoming.kind,
                                      !.commits = IF incoming.kind = "ancestor"
                                                  THEN @ ELSE Append(@, "merge")]
                /\ pc' = "current_sha"
                /\ UNCHANGED <<merging, git_reset, outcome>>
    /\ UNCHANGED <<index_marker, wt_marker, remote, procs, conf, call, frame,
                   josh, calls, prev>>

CurrentSha ==
    /\ pc = "current_sha"
    /\ \E rev_parse \in BOOLEAN :
         IF ~rev_parse
         THEN /\ Return("PullFailed", Err("failed to get current commit"), "current_sha")
              /\ UNCHANGED frame
         ELSE /\ frame' = [frame EXCEPT !.current_sha = Some(head)]
              /\ pc' = "noop_check"
              /\ UNCHANGED <<outcome, obs>>
    /\ UNCHANGED <<repo, remote, procs, conf, call, guards, calls, prev>>

\* A check that bails whatever the caller asked for
Bail_Regardless(nothing_pulled, allow_noop) == nothing_pulled

\* `<nothing pulled> && !allow_noop`
Bail(nothing_pulled, allow_noop) == nothing_pulled /\ ~allow_noop

\* The two no-op checks; has_empty_diff is the left operand of the second
\* `&&`, so `git diff` is run whenever the first check did not return.
NoopCheck ==
    /\ pc = "noop_check"
    /\ \E diff_runs \in BOOLEAN :
         LET empty == HasEmptyDiff(Unwrap(frame.sha_pre_merge), diff_runs)
             diff  == IF empty THEN "ok" ELSE "err"
         IN  IF Bail(frame.current_sha = frame.sha_pre_merge, args.allow_noop)
             THEN Return("NothingToPull", NoError, "noop_no_merge")
             ELSE IF Bail(empty, args.allow_noop)
             THEN ReturnWith([obs EXCEPT !.diff = diff],
                             "NothingToPull", NoError, "noop_empty_diff")
             ELSE /\ pc' = "post_pull"
                  /\ obs' = [Reach("post_pull") EXCEPT !.diff = diff]
                  /\ UNCHANGED outcome
    /\ UNCHANGED <<repo, remote, procs, conf, call, frame, guards, calls, prev>>

\* A failed operation that is passed over
OpFailed_Ignored(rev_parse, run) == FALSE

\* The `?` on get_current_head_sha and on the operation's command
OpFailed(rev_parse, run) == ~rev_parse \/ run = "failed"

\* run_post_pull_op for the next configured operation of the `for` loop:
\* the operation fails, leaves the tracked files alone, or changes them.
RunPostPullOp ==
    /\ pc = "post_pull"
    /\ frame.op < post_pull
    /\ \E rev_parse \in BOOLEAN, run \in {"failed", "unchanged", "changed"},
          diff_runs \in BOOLEAN, added \in BOOLEAN, committed \in BOOLEAN :
         LET tree == IF run = "changed" THEN wt_tree + 1 ELSE wt_tree
             empty == run # "changed" /\ HasEmptyDiff(head, diff_runs)
             ran == [obs EXCEPT !.ops = Append(@, [op |-> frame.op + 1,
                                                   run |-> IF rev_parse THEN run ELSE "not_run",
                                                   head |-> head])]
         IN  IF OpFailed(rev_parse, run)
             THEN /\ ReturnWith(ran, "PullFailed", Err("post-pull operation failed"), "post_pull")
                  /\ UNCHANGED <<head, wt_tree, frame>>
             ELSE IF empty
             THEN /\ frame' = [frame EXCEPT !.op = @ + 1]
                  /\ obs' = ran
                  /\ UNCHANGED <<head, wt_tree, pc, outcome>>
             ELSE IF ~added \/ ~committed \/ run # "changed"
             \* `git commit` with nothing to commit fails
             THEN /\ wt_tree' = tree
                  /\ ReturnWith(ran, "PullFailed", Err("post-pull commit failed"), "post_pull_commit")
                  /\ UNCHANGED <<head, frame>>
             ELSE /\ wt_tree' = tree
                  /\ head' = Append(head, Commit("post", index_marker, tree, 0))
                  /\ obs' = [ran EXCEPT !.commits = Append(@, "post")]
                  /\ frame' = [frame EXCEPT !.op = @ + 1]
                  /\ UNCHANGED <<pc, outcome>>
    /\ UNCHANGED <<index_marker, wt_marker, merging, remote, procs, conf, call,
                   guards, calls, prev>>

\* A root check that is come to with the guard still armed
DisarmGuard_Omitted ==
    /\ pc = "post_pull"
    /\ frame.op = post_pull
    /\ pc' = "check_roots"
    /\ UNCHANGED <<repo, remote, procs, conf, call, frame, guards, outcome, hist>>

\* git_reset.disarm() after the last post-pull operation
DisarmGuard ==
    /\ pc = "post_pull"
    /\ frame.op = post_pull
    /\ git_reset' = Some(Disarm(Unwrap(git_reset)))
    /\ pc' = "check_roots"
    /\ UNCHANGED <<repo, remote, procs, conf, call, frame, josh, outcome, hist>>

\* A comparison that accepts any number of root commits
NewRootCreated_Never(num_roots_before, num_roots_after) == FALSE

\* `if num_roots_before != num_roots_after`
NewRootCreated(num_roots_before, num_roots_after) ==
    num_roots_before # num_roots_after

CheckRoots ==
    /\ pc = "check_roots"
    /\ \E counted \in BOOLEAN :
         IF ~counted
         THEN Return("PullFailed", Err("failed to determine the number of root commits"), "num_roots_after")
         ELSE IF NewRootCreated(frame.num_roots_before, CountRoots(head))
         THEN Return("PullFailed", Err("Josh created a new root commit"), "check_roots")
         ELSE Return("Ok", NoError, "end")
    /\ UNCHANGED <<repo, remote, procs, conf, call, frame, guards, calls, prev>>

(***************************************************************************)
(* Leaving the call: Drop for GitResetOnDrop, then for RunningJoshProxy.   *)
(***************************************************************************)
\* A reset that undoes the most recent commit only
ResetTarget_LastCommit(guard, current) ==
    IF Len(current) > 1 THEN SubSeq(current, 1, Len(current) - 1) ELSE current

\* &self.reset_to, the argument of the reset: the commit the guard was
\* created with, whatever HEAD is when the guard is dropped
ResetTarget(guard, current) == guard.reset_to

\* A failed command whose error is dropped
Expect_Swallowed(res, ok) == res

\* run_command(..).expect(..) in the drop: what the call ends with
Expect(res, ok) == IF ok THEN res ELSE "Panic"

\* `git reset --hard <reset_to>` unless disarmed; a failed reset panics, and
\* a panic while already unwinding aborts the process.
DropGitReset ==
    /\ pc = "drop_git_reset"
    /\ git_reset' = None
    /\ IF Armed
       THEN \E reset \in BOOLEAN :
              LET to == ResetTarget(Unwrap(git_reset), head)
              IN  /\ obs' = [obs EXCEPT !.resets = Append(@, [to |-> to, ok |-> reset])]
                  /\ IF reset
                     THEN /\ head' = to
                          /\ index_marker' = Last(to).ver
                          /\ wt_marker' = ResetMarker(to)
                          /\ wt_tree' = Last(to).tree
                          /\ merging' = FALSE
                          /\ pc' = "drop_josh"
                          /\ UNCHANGED outcome
                     ELSE /\ result' = Expect(result, reset)
                          /\ error' = Err("cannot reset current branch")
                          /\ pc' = IF result = "Panic" THEN "done" ELSE "drop_josh"
                          /\ UNCHANGED repo
       ELSE /\ pc' = "drop_josh"
            /\ UNCHANGED <<repo, outcome, obs>>
    /\ UNCHANGED <<remote, procs, conf, call, frame, josh, calls, prev>>

\* A try_wait() that never sees the child gone
TryWaitIsSome_Never(process) == FALSE

\* self.process.try_wait()...is_some(): the child has exited
TryWaitIsSome(process) == process = "exited"

\* Drop for RunningJoshProxy, on a unix build and on another: on unix
\* `kill -s INT <pid>`, the grace period (during which the child exits or
\* not) and try_wait(), which ends the drop when the child has exited;
\* otherwise, and off unix, the drop goes on to process.kill().
DropJosh ==
    /\ pc = "drop_josh"
    /\ IF ~josh
       THEN /\ pc' = "done"
            /\ UNCHANGED <<child, josh, obs>>
       ELSE \E unix \in BOOLEAN :
              IF ~unix
              THEN /\ pc' = "kill_josh"
                   /\ UNCHANGED <<child, josh, obs>>
              ELSE \E after_grace \in (IF child = "running"
                                       THEN {"running", "exited"} ELSE {child}) :
                     /\ child' = after_grace
                     /\ obs' = [obs EXCEPT !.shutdown = Append(@, "INT"),
                                           !.grace = after_grace]
                     /\ IF TryWaitIsSome(after_grace)
                        THEN josh' = FALSE /\ pc' = "done"
                        ELSE josh' = josh /\ pc' = "kill_josh"
    /\ UNCHANGED <<repo, remote, orphans, conf, call, frame, git_reset, outcome, calls, prev>>

\* self.process.kill(): the end of the drop
KillJosh ==
    /\ pc = "kill_josh"
    /\ child' = "exited"
    /\ josh' = FALSE
    /\ obs' = [obs EXCEPT !.shutdown = Append(@, "KILL")]
    /\ pc' = "done"
    /\ UNCHANGED <<repo, remote, orphans, conf, call, frame, git_reset, outcome, calls, prev>>

\* An exit status that reports "nothing to pull" as a hard failure
ExitCode_Merged(res, gh_pr) == IF res = "Ok" THEN 0 ELSE 1

\* The exit status of the process: main's match on the result of rustc_pull
\* (after Ok, maybe_create_gh_pr can fail or panic), `?` on the result of
\* rustc_push, and 101, the status of a Rust process that panicked.
ExitCode(res, gh_pr) ==
    CASE res = "Ok" -> (IF gh_pr = "err" THEN 1
                        ELSE IF gh_pr = "panic" THEN 101 ELSE 0)
      [] res = "NothingToPull" -> 2
      [] res \in {"PullFailed", "Err"} -> 1
      [] OTHER -> 101

\* main after the call: the pull's result is matched; after Ok the user may
\* have `gh pr create` run, which succeeds (or is declined), cannot be
\* run, or the prompt cannot read its answer.
MainMatch ==
    /\ pc = "done"
    /\ \E gh_pr \in (IF cmd = "pull" /\ result = "Ok"
                      THEN {"ok", "err", "panic"} ELSE {"none"}) :
         obs' = [obs EXCEPT !.gh_pr = gh_pr,
                            !.exit_code = Some(ExitCode(result, gh_pr))]
    /\ pc' = "exit"
    /\ UNCHANGED <<repo, remote, procs, conf, call, frame, guards, outcome, calls, prev>>

\* The process ends; a child it did not stop keeps running.
Exit ==
    /\ pc = "exit"
    /\ pc' = "idle"
    /\ orphans' = IF child = "running" THEN orphans + 1 ELSE orphans
    /\ child' = "none"
    /\ prev' = IF cmd = "pull" /\ result = "Ok" THEN frame.upstream_sha ELSE None
    /\ cmd' = "none"
    /\ args' = NoArgs
    /\ ctx' = None
    /\ frame' = Frame0
    /\ josh' = FALSE
    /\ git_reset' = None
    /\ result' = "none"
    /\ error' = NoError
    /\ obs' = Obs0
    /\ post_pull' = 0
    /\ UNCHANGED <<repo, remote, calls, config>>

(***************************************************************************)
(* rustc_push.                                                             *)
(***************************************************************************)
\* last_upstream_sha.clone().unwrap_or_default()
UnwrapOrDefault(o) == IF IsSome(o) THEN Unwrap(o) ELSE <<>>

BaseUpstreamSha ==
    /\ pc = "base_sha"
    /\ frame' = [frame EXCEPT !.base_upstream_sha = Some(UnwrapOrDefault(ctx))]
    /\ pc' = "start"
    /\ UNCHANGED <<repo, remote, procs, conf, call, guards, outcome, hist>>

\* prepare_rustc_checkout: a checkout is found or cloned, none is available,
\* or RUSTC_GIT names no directory (the assert panics).
PrepareRustcCheckout ==
    /\ pc = "checkout"
    /\ \E checkout \in {"ok", "err", "panic"} :
         IF checkout = "panic"
         THEN ReturnWith(Started, "Panic", Err("rustc checkout path must be a directory"), "checkout_assert")
         ELSE IF checkout = "err"
         THEN ReturnWith(Started, "Err", Err("cannot prepare rustc checkout"), "checkout")
         ELSE /\ pc' = "collision"
              /\ obs' = Started
              /\ UNCHANGED outcome
    /\ UNCHANGED <<repo, remote, procs, conf, call, frame, guards, calls, prev>>

\* `git fetch <fork> <branch>`.is_ok(): the fetch can succeed only when the
\* branch exists; it fails when the branch does not exist and when the
\* fetch fails for any other reason.
BranchCollisionCheck ==
    /\ pc = "collision"
    /\ \E fetched \in BOOLEAN :
         /\ fetched => IsSome(fork_branch)
         /\ IF fetched
            THEN ReturnWith([obs EXCEPT !.probe = "found"], "Err",
                            Err("The branch seems to already exist"), "collision")
            ELSE /\ obs' = [obs EXCEPT !.probe = "not_found"]
                 /\ pc' = "fetch_base"
                 /\ UNCHANGED outcome
    /\ UNCHANGED <<repo, remote, procs, conf, call, frame, guards, calls, prev>>

FetchBase ==
    /\ pc = "fetch_base"
    /\ \E fetched \in BOOLEAN :
         IF ~fetched
         THEN Return("Err", Err("cannot download latest upstream SHA"), "fetch_base")
         ELSE /\ pc' = "push_base"
              /\ obs' = Reach("fetch_base")
              /\ UNCHANGED outcome
    /\ UNCHANGED <<repo, remote, procs, conf, call, frame, guards, calls, prev>>

\* The fork's branch after a successful `git push <url> <src>:refs/heads/<branch>`:
\* an empty <src> deletes the branch (the push of a fully named ref succeeds
\* with a warning when the branch does not exist), any other makes <src> its tip.
Pushed(what, src) == IF src = <<>> THEN None ELSE Some(what)

\* A base push whose failure does not end the call
PushBase_Unchecked ==
    /\ pc = "push_base"
    /\ \E pushed \in BOOLEAN :
         LET src == Unwrap(frame.base_upstream_sha)
         IN  /\ fork_branch' = IF pushed THEN Pushed("base", src) ELSE fork_branch
             /\ obs' = [obs EXCEPT !.pushes = Append(@, [what |-> "base", ok |-> pushed])]
             /\ pc' = "push_filtered"
    /\ UNCHANGED <<repo, procs, conf, call, frame, guards, outcome, calls, prev>>

\* `git push <fork> <base_upstream_sha>:refs/heads/<branch>`
PushBase ==
    /\ pc = "push_base"
    /\ \E pushed \in BOOLEAN :
         LET src == Unwrap(frame.base_upstream_sha)
             o == [obs EXCEPT !.pushes = Append(@, [what |-> "base", ok |-> pushed])]
         IN  IF ~pushed
             THEN /\ ReturnWith(o, "Err", Err("cannot push to your fork"), "push_base")
                  /\ UNCHANGED fork_branch
             ELSE /\ fork_branch' = Pushed("base", src)
                  /\ obs' = o
                  /\ pc' = "push_filtered"
                  /\ UNCHANGED outcome
    /\ UNCHANGED <<repo, procs, conf, call, frame, guards, calls, prev>>

\* `git push <josh_url> HEAD:<branch>`
PushFiltered ==
    /\ pc = "push_filtered"
    /\ \E pushed \in BOOLEAN :
         LET o == [obs EXCEPT !.pushes = Append(@, [what |-> "filtered", ok |-> pushed])]
         IN  IF ~pushed
             THEN /\ ReturnWith(o, "Err", Err("git push failed"), "push_filtered")
                  /\ UNCHANGED fork_branch
             ELSE /\ fork_branch' = Pushed("filtered", head)
                  /\ obs' = o
                  /\ pc' = "roundtrip_fetch"
                  /\ UNCHANGED outcome
    /\ UNCHANGED <<repo, procs, conf, call, frame, guards, calls, prev>>

\* What the proxy hands back for a pushed history: the history itself, or
\* one whose last commit it rewrote.
FetchedBack(h) ==
    {h, SubSeq(h, 1, Len(h) - 1) \o <<[Last(h) EXCEPT !.kind = "rewritten"]>>}

\* A fetch that moves HEAD to what it fetched, as `git pull` does
AfterFetch_Moved(local_head, fetched) == fetched

\* HEAD after `git fetch`: the fetch writes FETCH_HEAD and leaves HEAD alone
AfterFetch(local_head, fetched) == local_head

\* `git fetch <josh_url> <branch>`
RoundTripFetch ==
    /\ pc = "roundtrip_fetch"
    /\ \E fetched \in {None} \cup {Some(h) : h \in FetchedBack(head)} :
         IF fetched = None
         THEN /\ Return("Err", Err("git fetch failed"), "roundtrip_fetch")
              /\ UNCHANGED <<frame, head>>
         ELSE /\ frame' = [frame EXCEPT !.fetch_head = fetched]
              /\ head' = AfterFetch(head, Unwrap(fetched))
              /\ pc' = "roundtrip_head"
              /\ UNCHANGED <<outcome, obs>>
    /\ UNCHANGED <<index_marker, wt_marker, wt_tree, merging, remote, procs, conf,
                   call, guards, calls, prev>>

RoundTripHead ==
    /\ pc = "roundtrip_head"
    /\ \E rev_parse \in BOOLEAN :
         IF ~rev_parse
         THEN /\ Return("Err", Err("failed to get current commit"), "roundtrip_head")
              /\ UNCHANGED frame
         ELSE /\ frame' = [frame EXCEPT !.current_sha = Some(head)]
              /\ pc' = "roundtrip_compare"
              /\ UNCHANGED <<outcome, obs>>
    /\ UNCHANGED <<repo, remote, procs, conf, call, guards, calls, prev>>

\* "Josh created a non-roundtrip push! ... Expected {head}, got {fetch_head}."
NonRoundTrip(local_head, fetch_head) ==
    [kind |-> "Josh created a non-roundtrip push", expected |-> Some(local_head),
     got |-> Some(fetch_head)]

\* A comparison that accepts whatever was fetched back
RoundTrips_Always(local_head, fetch_head) == TRUE

\* `if head != fetch_head`
RoundTrips(local_head, fetch_head) == local_head = fetch_head

RoundTripCompare ==
    /\ pc = "roundtrip_compare"
    /\ \E rev_parse \in BOOLEAN :
         LET local_head == Unwrap(frame.current_sha)
             fetch_head == Unwrap(frame.fetch_head)
         IN  IF ~rev_parse
             THEN Return("Err", Err("git rev-parse FETCH_HEAD failed"), "roundtrip_rev_parse")
             ELSE IF ~RoundTrips(local_head, fetch_head)
             THEN Return("Err", NonRoundTrip(local_head, fetch_head), "roundtrip_compare")
             ELSE Return("Ok", NoError, "end")
    /\ UNCHANGED <<repo, remote, procs, conf, call, frame, guards, calls, prev>>

(***************************************************************************)
(* Between two commands.                                                   *)
(***************************************************************************)
\* Someone creates the target branch on the fork before the push looks for it.
BranchAppearsOnFork ==
    /\ pc = "preflight"
    /\ cmd = "push"
    /\ fork_branch = None
    /\ fork_branch' = Some("foreign")
    /\ UNCHANGED <<repo, procs, conf, pc, call, frame, guards, outcome, hist>>

\* The user fixes the conflicts a failed merge left, `git add`s the changes
\* and runs `git merge --continue`.
UserResolvesConflict ==
    /\ pc = "idle"
    /\ merging
    /\ head' = Append(head, Commit("merge", Last(head).ver, wt_tree + 1, 0))
    /\ wt_tree' = wt_tree + 1
    /\ merging' = FALSE
    /\ UNCHANGED <<index_marker, wt_marker, remote, procs, conf, pc, call, frame,
                   guards, outcome, hist>>

Next ==
    \/ Invoke
    \/ ResolveTarget
    \/ EnsureCleanGitState
    \/ JoshStart
    \/ GetOrigHead
    \/ ShortCircuit
    \/ WriteMarker
    \/ GitAddMarker
    \/ GitCommitMarker
    \/ FetchUpstream
    \/ NumRootsBefore
    \/ ShaPreMerge
    \/ IncomingRef
    \/ MergeMessage
    \/ MergeFetched
    \/ CurrentSha
    \/ NoopCheck
    \/ RunPostPullOp
    \/ DisarmGuard
    \/ CheckRoots
    \/ DropGitReset
    \/ DropJosh
    \/ KillJosh
    \/ MainMatch
    \/ Exit
    \/ BaseUpstreamSha
    \/ PrepareRustcCheckout
    \/ BranchCollisionCheck
    \/ FetchBase
    \/ PushBase
    \/ PushFiltered
    \/ RoundTripFetch
    \/ RoundTripHead
    \/ RoundTripCompare
    \/ BranchAppearsOnFork
    \/ UserResolvesConflict

Spec == Init /\ [][Next]_vars

(***************************************************************************)
(* load_config and JoshConfig::construct_josh_filter (src/src/config.rs),  *)
(* on their own: a configuration file is loaded, and the filter is built   *)
(* from the configuration that was loaded.                                 *)
(***************************************************************************)
\* The `path` and `filter` keys a file can hold: absent, empty, or a value
PathValues == {None, Some(<<>>), Some(<<"l", "i", "b">>)}
FilterValues == {None, Some(<<>>), Some(<<":", "/", "x">>)}

\* The files: one that cannot be read, and the TOML documents
ConfigFiles ==
    {[readable |-> FALSE, toml |-> NoJoshConfig]}
    \cup {[readable |-> TRUE, toml |-> t] :
            t \in [org : {None, Some("rust-lang-nursery")},
                   repo : {None, Some("x")},
                   path : PathValues,
                   filter : FilterValues,
                   post_pull : 0..MaxPostPull]}

\* #[serde(default = "default_org")]
DefaultOrg(org) == IF IsSome(org) THEN org ELSE Some("rust-lang")

\* A check that lets every combination through
BothOrNeither_Never(path, filter) == FALSE

\* `config.path.is_some() == config.filter.is_some()`
BothOrNeither(path, filter) == IsSome(path) = IsSome(filter)

LoadError(kind) == [status |-> "err", error |-> kind, config |-> NoJoshConfig]

\* load_config
LoadConfig(file) ==
    IF ~file.readable THEN LoadError("cannot load config file")
    ELSE IF file.toml.repo = None THEN LoadError("cannot load config as TOML")
    ELSE IF BothOrNeither(file.toml.path, file.toml.filter)
    THEN (IF IsSome(file.toml.path)
          THEN LoadError("Cannot specify both path and filter")
          ELSE LoadError("Must specify one of path and filter"))
    ELSE [status |-> "ok", error |-> "none",
          config |-> [file.toml EXCEPT !.org = DefaultOrg(@)]]

\* JoshConfig::construct_josh_filter
ConstructJoshFilter(c) ==
    IF IsSome(c.path) /\ c.filter = None
    THEN [called |-> TRUE, unreachable |-> FALSE, value |-> <<":", "/">> \o Unwrap(c.path)]
    ELSE IF c.path = None /\ IsSome(c.filter)
    THEN [called |-> TRUE, unreachable |-> FALSE, value |-> Unwrap(c.filter)]
    ELSE [called |-> TRUE, unreachable |-> TRUE, value |-> <<>>]

ConfigInit ==
    /\ config \in {[Config0 EXCEPT !.file = f] : f \in ConfigFiles}
    /\ head = <<Commit("base", None, 0, 1)>>
    /\ index_marker = None
    /\ wt_marker = None
    /\ wt_tree = 0
    /\ merging = FALSE
    /\ fork_branch = None
    /\ child = "none"
    /\ orphans = 0
    /\ post_pull = 0
    /\ pc = "idle"
    /\ cmd = "none"
    /\ args = NoArgs
    /\ ctx = None
    /\ frame = Frame0
    /\ josh = FALSE
    /\ git_reset = None
    /\ result = "none"
    /\ error = NoError
    /\ calls = 0
    /\ obs = Obs0
    /\ prev = None

\* load_context calls load_config on the file
Load ==
    /\ config.loaded.status = "none"
    /\ config' = [config EXCEPT !.loaded = LoadConfig(config.file)]
    /\ UNCHANGED <<repo, remote, procs, post_pull, pc, call, frame, guards, outcome, hist>>

\* rustc_pull / rustc_push build the proxy URL from the loaded configuration
BuildFilter ==
    /\ config.loaded.status = "ok"
    /\ ~config.josh_filter.called
    /\ config' = [config EXCEPT !.josh_filter = ConstructJoshFilter(config.loaded.config)]
    /\ UNCHANGED <<repo, remote, procs, post_pull, pc, call, frame, guards, outcome, hist>>

ConfigNext == Load \/ BuildFilter

ConfigSpec == ConfigInit /\ [][ConfigNext]_vars

(***************************************************************************)
(* Properties.  A call is over, and its locals are dropped, at pc = "done"; *)
(* obs.head0 and obs.marker0 are HEAD and the marker file as the call       *)
(* found them.                                                              *)
(***************************************************************************)
Over == pc = "done"

PullOver == Over /\ cmd = "pull"

Target == Unwrap(frame.upstream_sha)

\* C1. Short-circuit: a pull that comes to the short-circuit check with a
\* stored synchronization point equal to the resolved target returns
\* NothingToPull; it creates no commit and does not write the marker file,
\* and HEAD and the marker file are after the call what they were before it.
C1_ShortCircuit ==
    (/\ cmd = "pull"
     /\ "short_circuit" \in obs.reached
     /\ IsSome(ctx)
     /\ Unwrap(ctx) = Target)
    => /\ result = "NothingToPull"
       /\ obs.ret_at = "short_circuit"
       /\ obs.writes = 0
       /\ obs.commits = <<>>
       /\ obs.resets = <<>>
       /\ head = Unwrap(obs.head0)
       /\ wt_marker = obs.marker0

C1_Witness ==
    /\ PullOver
    /\ obs.ret_at = "short_circuit"
    /\ result = "NothingToPull"
    /\ ctx = Some(Target)

\* C2. Idempotence: a pull that follows a pull which returned Ok for the
\* same target, and loads the marker file as that pull left it, returns
\* NothingToPull at the short-circuit check; so does the first pull when
\* the marker file it finds records the target already.
C2_Idempotence ==
    (/\ cmd = "pull"
     /\ "short_circuit" \in obs.reached
     /\ \/ IsSome(prev) /\ prev = frame.upstream_sha
        \/ calls = 1 /\ obs.marker0 = Some(MarkerText(Target)))
    => /\ result = "NothingToPull"
       /\ head = Unwrap(obs.head0)

C2_Witness ==
    /\ PullOver
    /\ calls = 2
    /\ IsSome(prev)
    /\ prev = frame.upstream_sha
    /\ result = "NothingToPull"

\* C3. Rollback on fetch failure: a pull whose fetch through the proxy
\* fails after the marker commit was created, and which returns PullFailed,
\* leaves HEAD as it was before the call, and the marker file at its
\* pre-call value.
C3_RollbackOnFetchFailure ==
    (PullOver /\ obs.ret_at = "fetch" /\ result = "PullFailed")
    => /\ head = Unwrap(obs.head0)
       /\ wt_marker = obs.marker0

\* The part of C3 about HEAD and the tracked content
C3_Witness ==
    /\ PullOver
    /\ obs.ret_at = "fetch"
    /\ result = "PullFailed"
    /\ obs.commits = <<"marker">>
    /\ head = Unwrap(obs.head0)
    /\ wt_marker # obs.marker0

\* C4. Conflict non-reversion: when the merge command fails the guard is
\* disarmed and no reset is run: HEAD stays at the marker commit made on top
\* of the pre-call HEAD, with the conflicted merge (if the failure was a
\* conflict) in progress, and the pull returns PullFailed.
C4_ConflictNonReversion ==
    (cmd = "pull" /\ obs.merged = "failed")
    => /\ result = "PullFailed"
       /\ obs.ret_at = "merge"
       /\ obs.resets = <<>>
       /\ ~Armed
       /\ head = Append(Unwrap(obs.head0),
                        Commit("marker", Some(MarkerText(Target)),
                               Last(Unwrap(obs.head0)).tree, 0))
       /\ wt_marker = Some(MarkerText(Target))

C4_Witness ==
    /\ PullOver
    /\ obs.merged = "failed"
    /\ merging
    /\ result = "PullFailed"

PushOver == Over /\ cmd = "push"

\* C6. Push round-trip: a push returns Ok only if the commit fetched back
\* through the proxy is the local HEAD; a push that comes to the comparison
\* returns Ok when the two are equal and otherwise an error that names
\* both: the local HEAD as expected, the fetched commit as got.
C6_PushRoundTrip ==
    PushOver
    => /\ result = "Ok" => frame.fetch_head = Some(head)
       /\ obs.ret_at \in {"roundtrip_compare", "end"}
          => IF frame.fetch_head = Some(head)
             THEN result = "Ok" /\ error = NoError
             ELSE /\ result = "Err"
                  /\ error.expected = Some(head)
                  /\ error.got = frame.fetch_head

C6_Witness ==
    /\ PushOver
    /\ obs.ret_at = "roundtrip_compare"
    /\ result = "Err"
    /\ frame.fetch_head # Some(head)

\* C7. Branch-collision guard: a push that finds the target branch on the
\* fork already issues no push, and leaves the branch as it found it.
C7_BranchCollisionGuard ==
    (cmd = "push" /\ IsSome(obs.fork0))
    => /\ obs.pushes = <<>>
       /\ fork_branch = obs.fork0

\* The branch existed, the look-up fetch failed, and a push moved the branch
C7_Witness ==
    /\ PushOver
    /\ IsSome(obs.fork0)
    /\ obs.probe = "not_found"
    /\ fork_branch # obs.fork0

Running == orphans + (IF child = "running" THEN 1 ELSE 0)

\* C8. Scoped proxy lifetime: a call that started the proxy and returned
\* (Ok, NothingToPull or an error) has shut the proxy down; at most one
\* proxy runs at any time, and none runs between two commands.
C8_ScopedProxyLifetime ==
    /\ (Over /\ obs.spawned /\ result # "Panic") => child # "running"
    /\ Running <= 1
    /\ pc = "idle" => Running = 0

\* A proxy runs between two commands
C8_Witness == pc = "idle" /\ orphans > 0

\* C9. No orphaned proxy on startup failure: when start has spawned the
\* child and no connection attempt succeeded, the child is not running once
\* the failure has ended the call.
C9_NoOrphanOnStartupFailure ==
    (Over /\ obs.ret_at = "start_poll") => child # "running"

\* The start failed and its child runs on
C9_Witness ==
    /\ Over
    /\ obs.ret_at = "start_poll"
    /\ obs.spawned
    /\ child = "running"

\* C10. Bounded startup polling: start makes at most 100 connection
\* attempts; it returns the handle at the first attempt that connects, and
\* makes no other; when none of the 100 connects it panics.
C10_BoundedStartupPolling ==
    IsSome(obs.poll)
    => LET polled == Unwrap(obs.poll)
       IN  /\ polled.attempts \in 1..100
           /\ polled.connected
              => /\ polled.attempts = polled.ready_from
                 /\ josh
                 /\ result = "none"
           /\ ~polled.connected
              => /\ polled.attempts = 100
                 /\ polled.ready_from > 100
                 /\ ~josh
                 /\ result = "Panic"
                 /\ obs.ret_at = "start_poll"

\* The last attempt of the loop connects
C10_Witness ==
    /\ IsSome(obs.poll)
    /\ Unwrap(obs.poll).connected
    /\ Unwrap(obs.poll).attempts = 100
    /\ josh

C12_Preflight ==
    (cmd \in {"pull", "push"} /\ obs.status0 # <<>>)
    => /\ obs.writes = 0
       /\ obs.commits = <<>>
       /\ obs.merged = "none"
       /\ obs.pushes = <<>>
       /\ obs.resets = <<>>
       /\ head = Unwrap(obs.head0)
       /\ wt_marker = obs.marker0
       /\ Over => result \in {"PullFailed", "Err", "Panic"}

C12_Witness ==
    /\ Over
    /\ obs.status0 # <<>>
    /\ obs.ret_at = "preflight"
    /\ result = Failed
    /\ cmd = "push"

\* C13. Push leaves the local repository unchanged: at every point of a
\* push, and so on each of its exit paths, HEAD and the marker file are
\* what they were before the call; a push makes no commit, writes no
\* marker file and runs no reset.
C13_PushLeavesRepositoryUnchanged ==
    cmd = "push"
    => /\ head = Unwrap(obs.head0)
       /\ wt_marker = obs.marker0
       /\ GitStatus = obs.status0
       /\ obs.commits = <<>>
       /\ obs.writes = 0
       /\ obs.resets = <<>>
       /\ git_reset = None

\* A push that went through all its steps and returned Ok
C13_Witness ==
    /\ PushOver
    /\ result = "Ok"
    /\ Len(obs.pushes) = 2
    /\ head = Unwrap(obs.head0)
    /\ wt_marker = obs.marker0

\* The commits the call added on top of the pre-call HEAD
Added == SubSeq(head, Len(Unwrap(obs.head0)) + 1, Len(head))

\* C14. Successful-pull shape: a pull whose target differed from the stored
\* marker and whose merge applied with a non-empty diff does not end as
\* NothingToPull; it returns Ok unless a later command failed or the root
\* check refused the history; when it returns Ok the marker file holds the
\* target, and HEAD is the pre-call HEAD plus one marker commit, one merge
\* commit and one commit for each post-pull operation that altered
\* tracked files, at most one per configured operation.
C14_SuccessfulPullShape ==
    (PullOver /\ obs.merged = "changes")
    => /\ result # "NothingToPull"
       /\ result # "Ok"
          => obs.ret_at \in {"current_sha", "post_pull", "post_pull_commit",
                             "num_roots_after", "check_roots"}
       /\ result = "Ok"
          => /\ ctx # Some(Target)
             /\ wt_marker = Some(MarkerText(Target))
             /\ Last(head).ver = Some(MarkerText(Target))
             /\ GitStatus = <<>>
             /\ SubSeq(head, 1, Len(Unwrap(obs.head0))) = Unwrap(obs.head0)
             /\ Len(Added) \in 2..(2 + post_pull)
             /\ Added[1].kind = "marker"
             /\ Added[2].kind = "merge"
             /\ Added[2].tree # Added[1].tree
             /\ \A i \in 3..Len(Added) :
                  Added[i].kind = "post" /\ Added[i].tree # Added[i - 1].tree
             /\ obs.commits = [i \in 1..Len(Added) |-> Added[i].kind]

\* An Ok pull with a post-pull commit
C14_Witness ==
    /\ PullOver
    /\ obs.merged = "changes"
    /\ result = "Ok"
    /\ obs.commits = <<"marker", "merge", "post">>

Exited == pc = "exit" /\ cmd = "pull"

\* C15, as stated. Exit-code mapping of the pull command: the process exits
\* with 0 exactly when rustc_pull returned Ok, with 2 exactly when it
\* returned NothingToPull, with 1 exactly when it returned PullFailed.
C15_ExitCodeMapping ==
    (Exited /\ result \in {"Ok", "NothingToPull", "PullFailed"})
    => /\ obs.exit_code = Some(0) <=> result = "Ok"
       /\ obs.exit_code = Some(2) <=> result = "NothingToPull"
       /\ obs.exit_code = Some(1) <=> result = "PullFailed"

\* C15, amended. The process exits with 2 exactly when rustc_pull returned
\* NothingToPull; it exits with 1 whenever rustc_pull returned PullFailed,
\* and with 0 only when it returned Ok; after Ok it exits with 0 unless
\* the creation of the pull request that follows fails (1) or panics.
C15_ExitCodeMapping_Amended ==
    Exited
    => /\ obs.exit_code = Some(2) <=> result = "NothingToPull"
       /\ result = "PullFailed" => obs.exit_code = Some(1)
       /\ obs.exit_code = Some(0) => result = "Ok"
       /\ obs.exit_code = Some(1) => result \in {"PullFailed", "Ok"}
       /\ (result = "Ok" /\ obs.gh_pr = "ok") => obs.exit_code = Some(0)
       /\ (result = "Ok" /\ obs.exit_code = Some(1)) => obs.gh_pr = "err"
       /\ result = "Panic" => obs.exit_code \notin {Some(0), Some(1), Some(2)}

\* rustc_pull returned Ok and the process exits with 1
C15_Witness ==
    /\ Exited
    /\ result = "Ok"
    /\ obs.exit_code = Some(1)

ExactlyOne(c) ==
    \/ c.path # None /\ c.filter = None
    \/ c.path = None /\ c.filter # None

\* C16. Config exclusivity: load_config returns a configuration only when
\* exactly one of `path` and `filter` is set, the one the file holds; a
\* readable, well-formed file with both is refused with the error about
\* both, one with neither with the error about neither; and
\* construct_josh_filter, applied to a loaded configuration, never comes to
\* its unreachable arm.
C16_ConfigExclusivity ==
    /\ config.loaded.status = "ok"
       => /\ ExactlyOne(config.loaded.config)
          /\ config.loaded.config.path = config.file.toml.path
          /\ config.loaded.config.filter = config.file.toml.filter
    /\ (config.loaded.status # "none" /\ config.file.readable
        /\ config.file.toml.repo # None)
       => /\ ExactlyOne(config.file.toml) => config.loaded.status = "ok"
          /\ (config.file.toml.path # None /\ config.file.toml.filter # None)
             => config.loaded.error = "Cannot specify both path and filter"
          /\ (config.file.toml.path = None /\ config.file.toml.filter = None)
             => config.loaded.error = "Must specify one of path and filter"
    /\ ~config.josh_filter.unreachable
    /\ config.josh_filter.called
       => config.josh_filter.value =
            IF config.file.toml.path # None
            THEN <<":", "/">> \o Unwrap(config.file.toml.path)
            ELSE Unwrap(config.file.toml.filter)

\* A file with both keys was refused
C16_Witness ==
    /\ config.file.readable
    /\ config.file.toml.path # None
    /\ config.file.toml.filter # None
    /\ config.loaded.status = "err"

\* The marker file, or the marker a commit records, holds the target
Holds(marker, target) == LoadRustVersion(marker) = Some(target)

BetweenCommitAndMerge ==
    pc \in {"fetch", "num_roots_before", "sha_pre_merge", "incoming_ref",
            "merge_message", "merge"}

\* C17. Marker ordering: a pull that passed the short-circuit check writes
\* the marker file at most once, with the target, and commits it at most
\* once, as the first commit of the call and in a commit that changes
\* nothing else; the fetch is run only after that commit and the merge only
\* after the fetch, so from the commit to the merge HEAD is the pre-call
\* HEAD plus the marker commit, and after a failed merge the marker file
\* and HEAD hold the target.
C17_MarkerOrdering ==
    cmd = "pull"
    => /\ obs.writes <= 1
       /\ \A i \in 1..Len(obs.commits) : obs.commits[i] = "marker" <=> i = 1
       /\ obs.commits # <<>> => obs.writes = 1 /\ "short_circuit" \in obs.reached
       /\ obs.writes = 1 => "short_circuit" \in obs.reached /\ ctx # Some(Target)
       /\ (BetweenCommitAndMerge \/ "fetch" \in obs.reached)
          => obs.commits # <<>>
       /\ obs.merged # "none" => "fetch" \in obs.reached
       /\ BetweenCommitAndMerge
          => /\ obs.commits = <<"marker">>
             /\ Len(head) = Len(Unwrap(obs.head0)) + 1
             /\ SubSeq(head, 1, Len(head) - 1) = Unwrap(obs.head0)
             /\ Last(head).kind = "marker"
             /\ Last(head).tree = Last(Unwrap(obs.head0)).tree
             /\ Last(head).roots = 0
             /\ Holds(Last(head).ver, Target)
             /\ Holds(wt_marker, Target)
       /\ obs.merged = "failed"
          => Holds(wt_marker, Target) /\ Holds(Last(head).ver, Target)

\* The merge is about to run on top of the marker commit
C17_Witness ==
    /\ cmd = "pull"
    /\ pc = "merge"
    /\ obs.commits = <<"marker">>
    /\ "fetch" \in obs.reached
    /\ Holds(wt_marker, Target)
    /\ ~Holds(obs.marker0, Target)

\* C18. Proxy start point in a pull: the proxy process is spawned only after
\* the short-circuit check has been passed and the marker commit made; a
\* pull that returns NothingToPull at the short-circuit check has spawned
\* no proxy process.
C18_ProxyStartPoint ==
    cmd = "pull"
    => /\ obs.spawned
          => "short_circuit" \in obs.reached /\ obs.commits # <<>>
       /\ (obs.ret_at = "short_circuit" /\ result = "NothingToPull")
          => ~obs.spawned

\* A pull that ended at the short-circuit check after spawning the proxy
C18_Witness ==
    /\ PullOver
    /\ obs.ret_at = "short_circuit"
    /\ result = "NothingToPull"
    /\ obs.spawned
    /\ obs.commits = <<>>
    /\ obs.shutdown # <<>>

\* The merge command succeeded and the call came to the no-op checks
NoopDecided ==
    /\ cmd = "pull"
    /\ obs.merged \in {"changes", "empty", "ancestor"}
    /\ obs.ret_at \in {"noop_no_merge", "noop_empty_diff"}
       \/ "post_pull" \in obs.reached

C20_NothingToPullRestoresHead ==
    (PullOver /\ result = "NothingToPull")
    => /\ head = Unwrap(obs.head0)
       /\ obs.ret_at \in {"short_circuit", "noop_no_merge", "noop_empty_diff"}
       /\ obs.ret_at = "short_circuit" => obs.commits = <<>> /\ obs.resets = <<>>
       /\ obs.ret_at = "noop_no_merge"
          => /\ obs.commits = <<"marker">>
             /\ obs.resets = <<[to |-> Unwrap(obs.head0), ok |-> TRUE]>>
       /\ obs.ret_at = "noop_empty_diff"
          => /\ obs.commits = <<"marker", "merge">>
             /\ obs.resets = <<[to |-> Unwrap(obs.head0), ok |-> TRUE]>>

\* A pull given up at the empty-diff check, its two commits removed
C20_Witness ==
    /\ PullOver
    /\ result = "NothingToPull"
    /\ obs.ret_at = "noop_empty_diff"
    /\ obs.commits = <<"marker", "merge">>
    /\ head = Unwrap(obs.head0)

\* C21. Integrity failure is not auto-repaired: a pull that ends because the
\* number of root commits differs from the number counted before the merge
\* returns PullFailed with the guard disarmed; no reset is run, during the
\* call or at its end, and HEAD is the pre-call HEAD plus the marker
\* commit, the merge commit and the post-pull commits the call made, with
\* the new root still in it.
C21_IntegrityFailureNotRepaired ==
    (cmd = "pull" /\ obs.ret_at = "check_roots")
    => /\ result = "PullFailed"
       /\ error.kind = "Josh created a new root commit"
       /\ obs.resets = <<>>
       /\ git_reset # None => Unwrap(git_reset).disarmed
       /\ CountRoots(head) # frame.num_roots_before
       /\ SubSeq(head, 1, Len(Unwrap(obs.head0))) = Unwrap(obs.head0)
       /\ Len(Added) \in 2..(2 + post_pull)
       /\ Added[1].kind = "marker"
       /\ Added[2].kind = "merge"
       /\ \A i \in 3..Len(Added) : Added[i].kind = "post"
       /\ obs.commits = [i \in 1..Len(Added) |-> Added[i].kind]

\* The call is over after a failed root check that followed a post-pull commit
C21_Witness ==
    /\ PullOver
    /\ obs.ret_at = "check_roots"
    /\ result = "PullFailed"
    /\ obs.commits = <<"marker", "merge", "post">>
    /\ Len(head) = Len(Unwrap(obs.head0)) + 3

\* The places where a pull ends while its guard exists and is not disarmed:
\* the failed marker write, git add, git commit, fetch, rev-list, rev-parse
\* of HEAD and of FETCH_HEAD, the panic in the merge message, the failed
\* rev-parse after the merge, both no-op checks, and a failed post-pull
\* operation or post-pull commit.
ArmedExits ==
    {"write_marker", "git_add", "git_commit", "fetch", "num_roots_before",
     "sha_pre_merge", "incoming_ref", "byte index 12 is out of bounds",
     "current_sha", "noop_no_merge", "noop_empty_diff", "post_pull",
     "post_pull_commit"}

GuardDropped == pc \in {"drop_josh", "kill_josh", "done", "exit"}

\* C22. Guard fires on every armed exit path: when a pull has left
\* rustc_pull at a place where the guard existed and was not disarmed, one
\* hard reset has been run, to the commit read before the guard was
\* created, and when it succeeded HEAD is the pre-call HEAD; when the pull
\* left before the guard existed or after disarm (failed merge, root
\* check, Ok), no reset has been run; no reset is run before the call is
\* left.
C22_GuardFiresOnArmedExit ==
    cmd = "pull"
    => /\ Len(obs.resets) <= 1
       /\ ~GuardDropped => obs.resets = <<>>
       /\ (GuardDropped /\ obs.ret_at \in ArmedExits)
          => /\ Len(obs.resets) = 1
             /\ obs.resets[1].to = Unwrap(frame.orig_head)
             /\ obs.resets[1].to = Unwrap(obs.head0)
             /\ obs.resets[1].ok => head = Unwrap(obs.head0)
       /\ (GuardDropped /\ obs.ret_at \notin ArmedExits) => obs.resets = <<>>
       /\ (pc = "drop_git_reset" /\ obs.ret_at \in ArmedExits)
          => IsSome(git_reset) /\ ~Unwrap(git_reset).disarmed
       /\ (pc = "drop_git_reset" /\ obs.ret_at \notin ArmedExits)
          => git_reset = None \/ Unwrap(git_reset).disarmed

\* The guard has fired after a failed post-pull operation
C22_Witness ==
    /\ PullOver
    /\ obs.ret_at = "post_pull"
    /\ result = "PullFailed"
    /\ obs.resets = <<[to |-> Unwrap(obs.head0), ok |-> TRUE]>>
    /\ head = Unwrap(obs.head0)

\* C23. Failure classification: a pull that returned PullFailed has HEAD
\* equal to the pre-call HEAD unless the merge command failed or the root
\* comparison found a different number of root commits.
C23_FailureClassification ==
    (PullOver /\ result = "PullFailed" /\ obs.ret_at \notin {"merge", "check_roots"})
    => head = Unwrap(obs.head0)

\* PullFailed from the root count that could not be taken after the merge,
\* with the marker commit and the merge commit left in HEAD
C23_Witness ==
    /\ PullOver
    /\ result = "PullFailed"
    /\ obs.ret_at = "num_roots_after"
    /\ obs.resets = <<>>
    /\ Len(head) >= Len(Unwrap(obs.head0)) + 2
    /\ Added[1].kind = "marker"
    /\ Added[2].kind = "merge"

\* The post-pull commits the call has made
PostCommits == {i \in 1..Len(obs.commits) : obs.commits[i] = "post"}

\* C24. Post-pull operations: an operation is started only after the merge
\* succeeded and the no-op checks let the pull go on; operations are
\* started in configuration order, one at a time, the next one only after
\* the one before it and its commit are done; an operation that fails, or
\* that cannot be started or committed, is the last one started; each
\* operation makes at most one commit, and makes it only when it left the
\* tracked files different from the HEAD read just before it ran.
C24_PostPullOperations ==
    cmd = "pull"
    => /\ obs.ops # <<>>
          => /\ "post_pull" \in obs.reached
             /\ obs.merged \in {"changes", "empty", "ancestor"}
             /\ obs.ret_at \notin {"noop_no_merge", "noop_empty_diff", "merge"}
       /\ Len(obs.ops) <= post_pull
       /\ \A i \in 1..Len(obs.ops) : obs.ops[i].op = i
       /\ \A i \in 1..Len(obs.ops) :
            obs.ops[i].run \in {"failed", "not_run"}
            => i = Len(obs.ops) /\ obs.ret_at = "post_pull" /\ pc # "post_pull"
       /\ obs.ret_at \in {"post_pull", "post_pull_commit"}
          => Len(obs.ops) = frame.op + 1 /\ result # "Ok"
       /\ pc \in {"post_pull", "check_roots"} => Len(obs.ops) = frame.op
       /\ pc = "check_roots" => frame.op = post_pull
       /\ Cardinality(PostCommits) <= Len(obs.ops)
       /\ Cardinality(PostCommits)
            = Cardinality({i \in 1..Len(obs.ops) :
                             /\ obs.ops[i].run = "changed"
                             /\ (i < Len(obs.ops) \/ obs.ret_at # "post_pull_commit")})
       /\ pc \in {"post_pull", "check_roots"}
          => \A i \in 1..Len(obs.ops) :
               LET before == Len(obs.ops[i].head)
               IN  /\ SubSeq(head, 1, before) = obs.ops[i].head
                   /\ IF obs.ops[i].run = "changed"
                      THEN /\ Len(head) > before
                           /\ head[before + 1].kind = "post"
                           /\ head[before + 1].tree # head[before].tree
                           /\ i < Len(obs.ops)
                              => obs.ops[i + 1].head = SubSeq(head, 1, before + 1)
                      ELSE i < Len(obs.ops) => obs.ops[i + 1].head = obs.ops[i].head

\* Two operations have run in order, the first without a change and the
\* second with a commit
C24_Witness ==
    /\ cmd = "pull"
    /\ pc = "check_roots"
    /\ post_pull = 2
    /\ Len(obs.ops) = 2
    /\ obs.ops[1].run = "unchanged"
    /\ obs.ops[2].run = "changed"
    /\ obs.commits = <<"marker", "merge", "post">>

\* C25. Revert failure is fatal: when the reset run by the armed guard has
\* failed, the call ends in a panic, not in Ok, NothingToPull or
\* PullFailed, whatever it was about to return; main matches no result,
\* offers no pull request, and the exit status of the process is none of
\* 0, 1 and 2.
C25_RevertFailureIsFatal ==
    (cmd = "pull" /\ \E i \in 1..Len(obs.resets) : ~obs.resets[i].ok)
    => /\ result = "Panic"
       /\ result \notin {"Ok", "NothingToPull", "PullFailed"}
       /\ error.kind = "cannot reset current branch"
       /\ obs.gh_pr = "none"
       /\ pc \in {"drop_josh", "kill_josh", "done", "exit"}
       /\ pc = "exit" => obs.exit_code \notin {Some(0), Some(1), Some(2)}

\* The reset failed after a no-op check had returned NothingToPull, and the
\* process has ended
C25_Witness ==
    /\ cmd = "pull"
    /\ pc = "exit"
    /\ obs.ret_at = "noop_empty_diff"
    /\ obs.resets = <<[to |-> Unwrap(obs.head0), ok |-> FALSE]>>
    /\ result = "Panic"
    /\ head # Unwrap(obs.head0)

RoundTripBegun ==
    \/ pc \in {"roundtrip_head", "roundtrip_compare"}
    \/ obs.ret_at \in {"roundtrip_fetch", "roundtrip_head", "roundtrip_rev_parse",
                       "roundtrip_compare", "end"}

\* C26. Push step ordering: in a push the base commit is fetched before any
\* push is issued, the first push issued is the base push and the second,
\* if any, the filtered push; the filtered push is issued only after a
\* base push that succeeded, and the round-trip fetch only after a
\* filtered push that succeeded; nothing is pushed when the base could not
\* be fetched.
C26_PushStepOrdering ==
    cmd = "push"
    => /\ Len(obs.pushes) <= 2
       /\ obs.pushes # <<>>
          => "fetch_base" \in obs.reached /\ obs.pushes[1].what = "base"
       /\ Len(obs.pushes) = 2
          => obs.pushes[2].what = "filtered" /\ obs.pushes[1].ok
       /\ pc = "push_filtered" => obs.pushes = <<[what |-> "base", ok |-> TRUE]>>
       /\ (pc = "roundtrip_fetch" \/ RoundTripBegun)
          => obs.pushes = <<[what |-> "base", ok |-> TRUE],
                            [what |-> "filtered", ok |-> TRUE]>>
       /\ obs.ret_at = "push_base" => obs.pushes = <<[what |-> "base", ok |-> FALSE]>>
       /\ obs.ret_at = "push_filtered"
          => obs.pushes = <<[what |-> "base", ok |-> TRUE],
                            [what |-> "filtered", ok |-> FALSE]>>
       /\ obs.ret_at = "fetch_base" => obs.pushes = <<>>
       /\ pc \in {"collision", "fetch_base", "push_base"} => obs.pushes = <<>>

\* Both pushes succeeded and the branch has been fetched back
C26_Witness ==
    /\ cmd = "push"
    /\ pc = "roundtrip_head"
    /\ Len(obs.pushes) = 2
    /\ obs.pushes[2].ok
    /\ fork_branch = Some("filtered")
    /\ IsSome(frame.fetch_head)

\* C27. Push is safe to retry: a push that finds on the fork the branch an
\* earlier push left there when it failed after its base push is not
\* rejected by the branch-collision check.
C27_PushSafeToRetry ==
    (cmd = "push" /\ obs.fork0 = Some("base"))
    => obs.ret_at # "collision"

\* The retry of a push that failed at its filtered push is refused because
\* of the branch the failed push created
C27_Witness ==
    /\ PushOver
    /\ calls = 2
    /\ obs.fork0 = Some("base")
    /\ obs.probe = "found"
    /\ obs.ret_at = "collision"
    /\ result = "Err"
    /\ obs.pushes = <<>>
    /\ fork_branch = Some("base")

\* C28. Push requires a recorded synchronization point: a push that loaded
\* no last-synchronized upstream SHA issues no push to the fork and ends
\* in an error; every base push names the SHA that was loaded.
C28_PushRequiresRecordedBase ==
    cmd = "push"
    => /\ ctx = None => obs.pushes = <<>>
       /\ (ctx = None /\ Over) => result \in {"Err", "Panic"}
       /\ obs.pushes # <<>> => frame.base_upstream_sha = ctx

\* A push with no recorded SHA has fetched the empty revision, issued its
\* base push with an empty source, pushed the filtered HEAD to a fork that
\* had no such branch, and returned Ok
C28_Witness ==
    /\ PushOver
    /\ ctx = None
    /\ frame.base_upstream_sha = Some(<<>>)
    /\ "fetch_base" \in obs.reached
    /\ obs.fork0 = None
    /\ obs.probe = "not_found"
    /\ obs.pushes = <<[what |-> "base", ok |-> TRUE], [what |-> "filtered", ok |-> TRUE]>>
    /\ fork_branch = Some("filtered")
    /\ result = "Ok"

\* C29. A pull handles a target of any length: a pull that has made its
\* marker commit and fetched, and leaves before the merge command is run,
\* leaves with PullFailed, not by a panic; so does a pull whose target is
\* shorter than twelve characters.
C29_AnyTargetLength ==
    (/\ cmd = "pull"
     /\ pc = "drop_git_reset"
     /\ "fetch" \in obs.reached
     /\ obs.merged = "none")
    => /\ result = "PullFailed"
       /\ result # "Panic"

\* A pull of a six-character target has panicked while building the merge
\* message, after the marker commit and the fetch, and the process has
\* ended with the status of a panic
C29_Witness ==
    /\ cmd = "pull"
    /\ pc = "exit"
    /\ obs.ret_at = "byte index 12 is out of bounds"
    /\ frame.upstream_sha = Some(ShaA)
    /\ Len(Target) = 6
    /\ obs.commits = <<"marker">>
    /\ obs.merged = "none"
    /\ result = "Panic"
    /\ obs.exit_code = Some(101)

ResolutionFailed ==
    obs.ret_at \in {"ls_remote", "could not obtain HEAD from remote"}

\* C30. Target resolution failure is fatal and harmless: the remote is
\* asked for its head exactly when no commit was supplied; when that query
\* fails the pull returns PullFailed, and when it answers with nothing the
\* pull panics, in both cases before the preflight, with no proxy spawned,
\* nothing written, committed or reset, and the repository as it was;
\* a pull that goes on past the resolution has a non-empty target, the
\* supplied commit when one was supplied.
C30_TargetResolutionFailure ==
    cmd = "pull"
    => /\ "ls_remote" \in obs.reached
          <=> (args.upstream_commit = None /\ pc # "resolve")
       /\ ResolutionFailed
          => /\ args.upstream_commit = None
             /\ frame.upstream_sha = None
             /\ obs.ret_at = "ls_remote" => result = "PullFailed"
             /\ obs.ret_at # "ls_remote" => result = "Panic"
             /\ pc = "exit" => obs.exit_code \in {Some(1), Some(101)}
             /\ "preflight" \notin obs.reached
             /\ ~obs.spawned
             /\ child = "none"
             /\ ~josh
             /\ git_reset = None
             /\ obs.writes = 0
             /\ obs.commits = <<>>
             /\ obs.resets = <<>>
             /\ head = Unwrap(obs.head0)
             /\ wt_marker = obs.marker0
             /\ GitStatus = obs.status0
       /\ (pc # "resolve" /\ ~ResolutionFailed)
          => /\ IsSome(frame.upstream_sha)
             /\ Unwrap(frame.upstream_sha) # <<>>
             /\ IsSome(args.upstream_commit)
                => frame.upstream_sha = args.upstream_commit

\* The remote answered with nothing and the process has ended by the panic
C30_Witness ==
    /\ cmd = "pull"
    /\ pc = "exit"
    /\ args.upstream_commit = None
    /\ obs.ret_at = "could not obtain HEAD from remote"
    /\ result = "Panic"
    /\ "ls_remote" \in obs.reached
    /\ "preflight" \notin obs.reached
    /\ ~obs.spawned
====
